---- MODULE Spec2Model ----
(***************************************************************************)
(* Model of the workout-log parser (src/src/workout_data_parser.py), of    *)
(* the pre-workout tokenizer (src/src/split_preworkout.py) and of two      *)
(* functions of the analysis (src/src/workout_log_analysis.py).            *)
(*                                                                         *)
(* Text is a sequence of one-character strings, so that the string         *)
(* operations the code relies on (split, strip, replace, "in", int, float) *)
(* are computed rather than assumed.                                       *)
(***************************************************************************)
EXTENDS Integers, Sequences, FiniteSets, TLC

(***************************************************************************)
(* Python string primitives                                                *)
(***************************************************************************)
NL == "\n"

\* str.isspace() for the characters of the model's alphabet
IsSpace(c) == c \in {" ", NL}

Digits == <<"0", "1", "2", "3", "4", "5", "6", "7", "8", "9">>

IsDigit(c) == \E i \in 1..10 : Digits[i] = c

DigitVal(c) == (CHOOSE i \in 1..10 : Digits[i] = c) - 1

\* s.startswith(p)
StartsWith(s, p) == Len(s) >= Len(p) /\ SubSeq(s, 1, Len(p)) = p

\* s.find(p), 1-based; 0 when p does not occur in s
Find(s, p) ==
    LET hits == {i \in 1..(Len(s) - Len(p) + 1) : SubSeq(s, i, i + Len(p) - 1) = p}
    IN  IF hits = {} THEN 0 ELSE CHOOSE i \in hits : \A j \in hits : i <= j

\* p in s
Contains(s, p) == Find(s, p) # 0

\* s.lstrip(), s.rstrip(), s.strip()
RECURSIVE LStrip(_)
LStrip(s) == IF s # <<>> /\ IsSpace(Head(s)) THEN LStrip(Tail(s)) ELSE s

RECURSIVE RStrip(_)
RStrip(s) ==
    IF s # <<>> /\ IsSpace(s[Len(s)]) THEN RStrip(SubSeq(s, 1, Len(s) - 1)) ELSE s

Strip(s) == RStrip(LStrip(s))

\* s.split(sep): every piece, empty ones included
RECURSIVE Split(_, _)
Split(s, sep) ==
    LET i == Find(s, sep)
    IN  IF i = 0 THEN <<s>>
        ELSE <<SubSeq(s, 1, i - 1)>> \o Split(SubSeq(s, i + Len(sep), Len(s)), sep)

\* s.split(sep, 1): at most one split
Split1(s, sep) ==
    LET i == Find(s, sep)
    IN  IF i = 0 THEN <<s>>
        ELSE <<SubSeq(s, 1, i - 1), SubSeq(s, i + Len(sep), Len(s))>>

\* s.split(): the maximal runs of non-whitespace characters
RECURSIVE SplitWs(_)
SplitWs(s) ==
    LET t == LStrip(s)
        ends == {i \in 1..Len(t) : IsSpace(t[i])}
        e == IF ends = {} THEN Len(t) + 1 ELSE CHOOSE i \in ends : \A j \in ends : i <= j
    IN  IF t = <<>> THEN <<>>
        ELSE <<SubSeq(t, 1, e - 1)>> \o SplitWs(SubSeq(t, e, Len(t)))

\* s.replace(old, "")
RECURSIVE Remove(_, _)
Remove(s, old) ==
    LET i == Find(s, old)
    IN  IF i = 0 THEN s
        ELSE SubSeq(s, 1, i - 1) \o Remove(SubSeq(s, i + Len(old), Len(s)), old)

\* sep.join(parts)
RECURSIVE Join(_, _)
Join(parts, sep) ==
    IF parts = <<>> THEN <<>>
    ELSE IF Len(parts) = 1 THEN parts[1]
    ELSE parts[1] \o sep \o Join(Tail(parts), sep)

\* value of a non-empty digit string
RECURSIVE DigitsVal(_)
DigitsVal(s) ==
    IF s = <<>> THEN 0 ELSE 10 * DigitsVal(SubSeq(s, 1, Len(s) - 1)) + DigitVal(s[Len(s)])

AllDigits(s) == s # <<>> /\ \A i \in 1..Len(s) : IsDigit(s[i])

Unsigned(s) == IF s # <<>> /\ s[1] \in {"+", "-"} THEN Tail(s) ELSE s

Sign(s) == IF s # <<>> /\ s[1] = "-" THEN -1 ELSE 1

NoError == "none"

ValueError == "ValueError"

IndexError == "IndexError"

\* int(s) on a stripped string: one sign is accepted, then digits only;
\* anything else raises ValueError
IntOfStripped(t) ==
    IF AllDigits(Unsigned(t))
    THEN [err |-> NoError, val |-> Sign(t) * DigitsVal(Unsigned(t))]
    ELSE [err |-> ValueError, val |-> 0]

\* int(s): surrounding whitespace is accepted
ToInt(s) == IntOfStripped(Strip(s))

\* trailing zeros of a fraction carry no value
RECURSIVE DropZeros(_)
DropZeros(s) ==
    IF s # <<>> /\ s[Len(s)] = "0" THEN DropZeros(SubSeq(s, 1, Len(s) - 1)) ELSE s

\* the value of a decimal literal split at ".": its sign, whole part and
\* fractional digits
Decimal(sign, parts) ==
    IF /\ Len(parts) <= 2
       /\ \A i \in 1..Len(parts) : parts[i] = <<>> \/ AllDigits(parts[i])
       /\ \E i \in 1..Len(parts) : parts[i] # <<>>
    THEN [err |-> NoError,
          val |-> [sign |-> sign, whole |-> DigitsVal(parts[1]),
                   frac |-> IF Len(parts) = 2 THEN DropZeros(parts[2]) ELSE <<>>]]
    ELSE [err |-> ValueError, val |-> [sign |-> 1, whole |-> 0, frac |-> <<>>]]

FloatOfStripped(t) == Decimal(Sign(t), Split(Unsigned(t), <<".">>))

\* float(s) for decimal literals: surrounding whitespace and one sign are
\* accepted, then digits with at most one "." and at least one digit;
\* anything else raises ValueError
ToFloat(s) == FloatOfStripped(Strip(s))

(***************************************************************************)
(* Python values whose type varies from row to row                         *)
(***************************************************************************)
PyNone == [kind |-> "None", val |-> 0]

PyInt(n) == [kind |-> "int", val |-> n]

PyFloat(f) == [kind |-> "float", val |-> f]

PyStr(s) == [kind |-> "str", val |-> s]

(***************************************************************************)
(* WorkoutDataParser.parse_fueling                                         *)
(***************************************************************************)
FuelingMarker == <<"F", "u", "e", "l", "i", "n", "g", ":">>

\* preworkout = segment.split("-")[1].strip()
FuelingPreworkout(acc, parts) ==
    IF Len(parts) < 2 THEN [acc EXCEPT !.err = IndexError]
    ELSE [acc EXCEPT !.preworkout = Strip(parts[2])]

\* hydration = int(...), given the outcome of int
FuelingHydrationInt(acc, r) ==
    IF r.err # NoError THEN [acc EXCEPT !.err = r.err]
    ELSE [acc EXCEPT !.hydration = PyInt(r.val)]

\* hydration = int(segment.split("-")[1].strip().replace("mL","").strip())
FuelingHydration(acc, parts) ==
    IF Len(parts) < 2 THEN [acc EXCEPT !.err = IndexError]
    ELSE FuelingHydrationInt(acc, ToInt(Remove(Strip(parts[2]), <<"m", "L">>)))

\* the loop body of parse_fueling on one segment
FuelingSegment(acc, segment) ==
    IF Contains(segment, <<"P", "r", "e", "w", "o", "r", "k", "o", "u", "t">>)
    THEN FuelingPreworkout(acc, Split(segment, <<"-">>))
    ELSE IF Contains(segment, <<"W", "o", "r", "k", "o", "u", "t", " ", "H", "y", "d", "r", "a", "t", "i", "o", "n">>)
    THEN FuelingHydration(acc, Split(segment, <<"-">>))
    ELSE acc

RECURSIVE FuelingLoop(_, _, _)
FuelingLoop(acc, segments, i) ==
    IF i > Len(segments) \/ acc.err # NoError THEN acc
    ELSE FuelingLoop(FuelingSegment(acc, segments[i]), segments, i + 1)

\* the values parse_fueling starts from
FuelingDefaults == [preworkout |-> <<>>, hydration |-> PyInt(0), err |-> NoError]

parse_fueling(fueling_info) ==
    FuelingLoop(FuelingDefaults,
                Split(Strip(Remove(fueling_info, FuelingMarker)), <<",">>), 1)

(***************************************************************************)
(* WorkoutDataParser.parse_amazefit_log                                    *)
(***************************************************************************)
AmazeFitMarker == <<"A", "m", "a", "z", "e", "F", "i", "t", " ", "l", "o", "g", ":">>

\* field = int(...), given the outcome of int
AmazeFitField(acc, field, r) ==
    IF r.err # NoError THEN [acc EXCEPT !.err = r.err]
    ELSE [acc EXCEPT ![field] = r.val]

\* int(segment.split("-")[1].strip().replace(suffix,"").strip())
AmazeFitSuffixed(acc, field, parts, suffix) ==
    IF Len(parts) < 2 THEN [acc EXCEPT !.err = IndexError]
    ELSE AmazeFitField(acc, field, ToInt(Remove(Strip(parts[2]), suffix)))

\* int(segment.split("-")[1].strip())
AmazeFitPlain(acc, field, parts) ==
    IF Len(parts) < 2 THEN [acc EXCEPT !.err = IndexError]
    ELSE AmazeFitField(acc, field, ToInt(parts[2]))

\* the loop body of parse_amazefit_log on one segment
AmazeFitSegment(acc, segment) ==
    IF Contains(segment, <<"d", "u", "r", "a", "t", "i", "o", "n">>)
    THEN AmazeFitSuffixed(acc, "duration", Split(segment, <<"-">>), <<"m", "i", "n">>)
    ELSE IF Contains(segment, <<"a", "v", "g", " ", "h", "e", "a", "r", "t", " ", "r", "a", "t", "e">>)
    THEN AmazeFitPlain(acc, "avg_heart_rate", Split(segment, <<"-">>))
    ELSE IF Contains(segment, <<"c", "a", "l", "o", "r", "i", "e", "s">>)
    THEN AmazeFitSuffixed(acc, "calories", Split(segment, <<"-">>), <<"k", "c", "a", "l">>)
    ELSE acc

RECURSIVE AmazeFitLoop(_, _, _)
AmazeFitLoop(acc, segments, i) ==
    IF i > Len(segments) \/ acc.err # NoError THEN acc
    ELSE AmazeFitLoop(AmazeFitSegment(acc, segments[i]), segments, i + 1)

\* the values parse_amazefit_log starts from
AmazeFitDefaults == [duration |-> 0, avg_heart_rate |-> 0, calories |-> 0, err |-> NoError]

parse_amazefit_log(amazefit_info) ==
    AmazeFitLoop(AmazeFitDefaults,
                 Split(Strip(Remove(amazefit_info, AmazeFitMarker)), <<",">>), 1)

(***************************************************************************)
(* WorkoutDataParser.parse_sets                                            *)
(***************************************************************************)
\* a cardio set that also fills reps
CardioSetWithReps(exercise_name, duration) ==
    [exercise |-> exercise_name, weight |-> PyNone, reps |-> PyInt(duration),
     cardio_duration |-> PyInt(duration)]

\* the dictionary appended for a cardio set
CardioSet(exercise_name, duration) ==
    [exercise |-> exercise_name, weight |-> PyNone, reps |-> PyNone,
     cardio_duration |-> PyInt(duration)]

\* the dictionary appended for a strength set
StrengthSet(exercise_name, weight, reps) ==
    [exercise |-> exercise_name, weight |-> PyFloat(weight), reps |-> PyInt(reps),
     cardio_duration |-> PyNone]

\* what one token does: the error it raises, or the sets it appends, each
\* with the position of its token
Raises(err) == [err |-> err, sets |-> <<>>]

NoSet == [err |-> NoError, sets |-> <<>>]

OneSet(set, tok) == [err |-> NoError, sets |-> <<[set |-> set, tok |-> tok]>>]

\* the cardio branch, given the outcome of int
CardioToken(exercise_name, duration, tok) ==
    IF duration.err # NoError THEN Raises(duration.err)
    ELSE OneSet(CardioSet(exercise_name, duration.val), tok)

\* the strength branch, given the outcomes of float and int
StrengthValues(exercise_name, weight, reps, tok) ==
    IF weight.err # NoError THEN Raises(weight.err)
    ELSE IF reps.err # NoError THEN Raises(reps.err)
    ELSE OneSet(StrengthSet(exercise_name, weight.val, reps.val), tok)

\* weight, reps = s[0].split("X") and the two conversions
StrengthToken(exercise_name, parts, tok) ==
    IF Len(parts) # 2 THEN Raises(ValueError)
    ELSE StrengthValues(exercise_name, ToFloat(parts[1]),
                        ToInt(Remove(Strip(parts[2]), <<".">>)), tok)

\* the two tests of parse_sets on s[0]
SetHead(exercise_name, head, tok) ==
    IF Contains(head, <<"m", "i", "n">>)
    THEN CardioToken(exercise_name, ToInt(Remove(head, <<"m", "i", "n">>)), tok)
    ELSE IF Contains(head, <<"X">>)
    THEN StrengthToken(exercise_name, Split(head, <<"X">>), tok)
    ELSE NoSet

\* s = s.split(); s[0] raises IndexError when s is empty
SetWords(exercise_name, words, tok) ==
    IF words = <<>> THEN Raises(IndexError) ELSE SetHead(exercise_name, words[1], tok)

\* the loop body of parse_sets on the token at position tok
SetToken(exercise_name, s, tok) == SetWords(exercise_name, SplitWs(s), tok)

\* the loop of parse_sets from position tok on, given what the token before
\* did and the sets parsed before it
RECURSIVE SetsLoop(_, _, _, _, _)
SetsLoop(exercise_name, sets_str_list, tok, parsed_sets, last) ==
    IF last.err # NoError THEN Raises(last.err)
    ELSE IF tok > Len(sets_str_list)
    THEN [err |-> NoError, sets |-> parsed_sets \o last.sets]
    ELSE SetsLoop(exercise_name, sets_str_list, tok + 1, parsed_sets \o last.sets,
                  SetToken(exercise_name, sets_str_list[tok], tok))

parse_sets(exercise_name, sets_str_list) ==
    SetsLoop(exercise_name, sets_str_list, 1, <<>>, NoSet)

(***************************************************************************)
(* WorkoutDataParser.process_entry                                         *)
(***************************************************************************)
MuscleMarker == <<"M", "u", "s", "c", "l", "e", " ", "t", "a", "r", "g", "e", "t", "e", "d", ":">>

ExerciseMarker == <<"E", "x", "e", "r", "c", "i", "s", "e", ":">>

\* the stripped, non-empty elements of a list of strings
RECURSIVE StripNonBlank(_, _)
StripNonBlank(raw, i) ==
    IF i > Len(raw) THEN <<>>
    ELSE (IF Strip(raw[i]) # <<>> THEN <<Strip(raw[i])>> ELSE <<>>)
         \o StripNonBlank(raw, i + 1)

\* the list lines of process_entry
EntryLines(entry) == StripNonBlank(Split(entry, <<NL>>), 1)

\* hydration starting from 0 instead of from the empty string
EntryDefaultsZero ==
    [muscle_targeted |-> <<>>, preworkout |-> <<>>, hydration |-> PyInt(0),
     workout_duration |-> 0, workout_avg_heart_rate |-> 0,
     workout_calories_burnt |-> 0, is_field_exercise |-> FALSE,
     appended |-> <<>>, handed |-> <<>>, err |-> NoError]

\* the locals of process_entry before its loop; appended holds the rows the
\* loop has appended to exercise_data so far, handed the positions of the
\* lines it has given to parse_sets
EntryDefaults ==
    [muscle_targeted |-> <<>>, preworkout |-> <<>>, hydration |-> PyStr(<<>>),
     workout_duration |-> 0, workout_avg_heart_rate |-> 0,
     workout_calories_burnt |-> 0, is_field_exercise |-> FALSE,
     appended |-> <<>>, handed |-> <<>>, err |-> NoError]

\* the two tags exchanged
TagSetSwapped(p, date, muscle_targeted) ==
    [exercise |-> p.exercise, weight |-> p.weight, reps |-> p.reps,
     cardio_duration |-> p.cardio_duration, date |-> muscle_targeted,
     muscle_targeted |-> date]

\* p.update({"date": date, "muscle_targeted": muscle_targeted})
TagSet(p, date, muscle_targeted) ==
    [exercise |-> p.exercise, weight |-> p.weight, reps |-> p.reps,
     cardio_duration |-> p.cardio_duration, date |-> date,
     muscle_targeted |-> muscle_targeted]

\* the rows one exercise line appends, each with the line and token it
\* comes from
TagSets(parsed, date, muscle_targeted, lineno) ==
    [i \in 1..Len(parsed) |->
        [row |-> TagSet(parsed[i].set, date, muscle_targeted),
         line |-> lineno, tok |-> parsed[i].tok]]

\* a "Fueling:" line that gives no meal keeps the meal already read
EntryFuelingKeeping(st, r) ==
    IF r.err # NoError THEN [st EXCEPT !.err = r.err]
    ELSE [st EXCEPT !.preworkout = IF r.preworkout = <<>> THEN @ ELSE r.preworkout,
                    !.hydration = r.hydration]

\* preworkout, hydration = self.parse_fueling(line)
EntryFueling(st, r) ==
    IF r.err # NoError THEN [st EXCEPT !.err = r.err]
    ELSE [st EXCEPT !.preworkout = r.preworkout, !.hydration = r.hydration]

\* the three tracker fields = self.parse_amazefit_log(line), then the flag
EntryAmazeFit(st, r) ==
    IF r.err # NoError THEN [st EXCEPT !.err = r.err]
    ELSE [st EXCEPT !.workout_duration = r.duration,
                    !.workout_avg_heart_rate = r.avg_heart_rate,
                    !.workout_calories_burnt = r.calories,
                    !.is_field_exercise = FALSE]

\* the rows of parsed are tagged and appended to exercise_data
EntrySets(st, r, date, lineno) ==
    IF r.err # NoError THEN [st EXCEPT !.err = r.err]
    ELSE [st EXCEPT !.appended = @ \o TagSets(r.sets, date, st.muscle_targeted, lineno)]

\* exercise_name, sets_str = line.split(":",1), and what follows
EntryExercise(st, parts, date, lineno) ==
    EntrySets([st EXCEPT !.handed = Append(@, lineno)],
              parse_sets(Strip(parts[1]), Split(parts[2], <<",">>)), date, lineno)

\* the loop body without the test of is_field_exercise: every unmarked line
\* with a colon is taken for an exercise line
EntryLineAnyBlock(st, line, date, lineno) ==
    IF StartsWith(line, MuscleMarker)
    THEN [st EXCEPT !.muscle_targeted = Strip(Split1(line, <<":">>)[2])]
    ELSE IF StartsWith(line, FuelingMarker)
    THEN EntryFueling(st, parse_fueling(line))
    ELSE IF StartsWith(line, ExerciseMarker)
    THEN [st EXCEPT !.is_field_exercise = TRUE]
    ELSE IF StartsWith(line, AmazeFitMarker)
    THEN EntryAmazeFit(st, parse_amazefit_log(line))
    ELSE IF Contains(line, <<":">>)
    THEN EntryExercise(st, Split1(line, <<":">>), date, lineno)
    ELSE st

\* the loop body of process_entry on the line at position lineno
EntryLine(st, line, date, lineno) ==
    IF StartsWith(line, MuscleMarker)
    THEN [st EXCEPT !.muscle_targeted = Strip(Split1(line, <<":">>)[2])]
    ELSE IF StartsWith(line, FuelingMarker)
    THEN EntryFueling(st, parse_fueling(line))
    ELSE IF StartsWith(line, ExerciseMarker)
    THEN [st EXCEPT !.is_field_exercise = TRUE]
    ELSE IF StartsWith(line, AmazeFitMarker)
    THEN EntryAmazeFit(st, parse_amazefit_log(line))
    ELSE IF st.is_field_exercise /\ Contains(line, <<":">>)
    THEN EntryExercise(st, Split1(line, <<":">>), date, lineno)
    ELSE st

RECURSIVE EntryLoop(_, _, _)
EntryLoop(st, lines, lineno) ==
    IF lineno > Len(lines) \/ st.err # NoError THEN st
    ELSE EntryLoop(EntryLine(st, lines[lineno], lines[1], lineno), lines, lineno + 1)

\* the dictionary appended to session_data
SessionRow(date, st) ==
    [date |-> date, workout_duration |-> st.workout_duration,
     workout_avg_heart_rate |-> st.workout_avg_heart_rate,
     workout_calories_burnt |-> st.workout_calories_burnt,
     preworkout |-> st.preworkout, hydration |-> st.hydration]

\* what process_entry has done when its loop ends in st: the rows appended
\* to exercise_data (those of the lines before a failing one included), the
\* row appended to session_data, the error raised
EntryOutcome(date, st) ==
    [err |-> st.err, appended |-> st.appended, handed |-> st.handed,
     sessions |-> IF st.err # NoError THEN <<>> ELSE <<SessionRow(date, st)>>]

\* process_entry from "if not lines" on
EntryOfLines(lines) ==
    IF lines = <<>>
    THEN [err |-> NoError, appended |-> <<>>, handed |-> <<>>, sessions |-> <<>>]
    ELSE EntryOutcome(lines[1], EntryLoop(EntryDefaults, lines, 2))

process_entry(entry) == EntryOfLines(EntryLines(entry))

(***************************************************************************)
(* WorkoutDataParser.parse_and_export                                      *)
(***************************************************************************)
\* a split at every newline instead of at every blank line
SplitEntriesByLine(content) == StripNonBlank(Split(Strip(content), <<NL>>), 1)

\* entries = [entry.strip() for entry in content.strip().split('\n\n')
\*            if entry.strip()]
SplitEntries(content) == StripNonBlank(Split(Strip(content), <<NL, NL>>), 1)

\* rows put in front of the list instead of at its end
PrependRows(data, rows) == rows \o data

\* self.exercise_data.append(p), for each p in turn
AppendRows(data, rows) == data \o rows

(***************************************************************************)
(* Input files.  A file is a sequence of pieces separated by a blank line, *)
(* a piece a sequence of raw lines.                                        *)
(***************************************************************************)
MaxLines == 3

MaxEntries == 3

MaxCalls == 2

Day1 == <<"D", "a", "y", "1">>

Day2 == <<"D", "a", "y", "2">>

Day3 == <<"D", "a", "y", "3">>

LMuscle == <<"M", "u", "s", "c", "l", "e", " ", "t", "a", "r", "g", "e", "t", "e", "d", ":", " ", "L", "e", "g">>

LMuscleArm == <<"M", "u", "s", "c", "l", "e", " ", "t", "a", "r", "g", "e", "t", "e", "d", ":", "A", "r", "m">>

LFuel == <<"F", "u", "e", "l", "i", "n", "g", ":", " ", "P", "r", "e", "w", "o", "r", "k", "o", "u", "t", " ", "-", " ", "1", " ", "E", "g", "g", ",", " ", "W", "o", "r", "k", "o", "u", "t", " ", "H", "y", "d", "r", "a", "t", "i", "o", "n", " ", "-", " ", "5", "0", "0", "m", "L">>

LFuelNoHyd == <<"F", "u", "e", "l", "i", "n", "g", ":", " ", "P", "r", "e", "w", "o", "r", "k", "o", "u", "t", " ", "-", " ", "T", "e", "a">>

LFuelBad == <<"F", "u", "e", "l", "i", "n", "g", ":", " ", "W", "o", "r", "k", "o", "u", "t", " ", "H", "y", "d", "r", "a", "t", "i", "o", "n", " ", "-", " ", "l", "o", "t", "s">>

LExercise == <<"E", "x", "e", "r", "c", "i", "s", "e", ":">>

LSquat == <<"S", "q", ":", " ", "1", "0", "X", "1", "2", ",", " ", "8", ".", "5", "X", "1", "5">>

LRun == <<"R", "u", "n", ":", " ", "5", "m", "i", "n">>

LRunSpaced == <<"R", "u", "n", ":", " ", "5", " ", "m", "i", "n">>

LBadSet == <<"S", "q", ":", " ", "a", "X", "3">>

LTracker == <<"A", "m", "a", "z", "e", "F", "i", "t", " ", "l", "o", "g", ":", " ", "d", "u", "r", "a", "t", "i", "o", "n", " ", "-", " ", "4", "0", " ", "m", "i", "n", ",", " ", "a", "v", "g", " ", "h", "e", "a", "r", "t", " ", "r", "a", "t", "e", " ", "-", " ", "1", "0", "5", ",", " ", "c", "a", "l", "o", "r", "i", "e", "s", " ", "-", " ", "2", "7", "6", "k", "c", "a", "l">>

LTrackerCal == <<"A", "m", "a", "z", "e", "F", "i", "t", " ", "l", "o", "g", ":", " ", "c", "a", "l", "o", "r", "i", "e", "s", " ", "-", " ", "9", "k", "c", "a", "l">>

LNote == <<"r", "e", "s", "t", " ", "d", "a", "y">>

LBadMin == <<"R", "u", "n", ":", " ", "f", "i", "v", "e", "m", "i", "n">>

LBadDuration == <<"A", "m", "a", "z", "e", "F", "i", "t", " ", "l", "o", "g", ":", " ", "d", "u", "r", "a", "t", "i", "o", "n", " ", "-", " ", "l", "o", "n", "g", " ", "m", "i", "n">>

LBadHeartRate == <<"A", "m", "a", "z", "e", "F", "i", "t", " ", "l", "o", "g", ":", " ", "d", "u", "r", "a", "t", "i", "o", "n", " ", "-", " ", "4", "0", " ", "m", "i", "n", ",", " ", "a", "v", "g", " ", "h", "e", "a", "r", "t", " ", "r", "a", "t", "e", " ", "-", " ", "h", "i", "g", "h">>

LBadCalories == <<"A", "m", "a", "z", "e", "F", "i", "t", " ", "l", "o", "g", ":", " ", "c", "a", "l", "o", "r", "i", "e", "s", " ", "-", " ", "2", ".", "5", "k", "c", "a", "l">>

LinePool ==
    {LMuscle, LMuscleArm, LFuel, LFuelNoHyd, LFuelBad, LExercise, LSquat, LRunSpaced, LBadSet,
     LTracker, LTrackerCal, LNote}

\* one-entry files: the date line, then up to MaxLines lines of the pool
SingleEntryFiles ==
    {<<(<<Day1>> \o body)>> : body \in UNION {[1..k -> LinePool] : k \in 0..MaxLines}}

PBlank == <<>>

PSpace == <<<<" ">>>>

PSquat == <<<<" ", "D", "a", "y", "1", " ">>, <<" ">>, LExercise, LSquat>>

PFull == <<Day2, LMuscle, LFuel, LExercise, LRun, LSquat, LTracker>>

PPartial == <<Day3, LExercise, LSquat, LBadSet>>

PRest == <<Day1, LFuelNoHyd, LNote>>

PiecePool == {PBlank, PSpace, PSquat, PFull, PPartial, PRest}

\* files of several pieces, blank ones among them
MultiEntryFiles == UNION {[1..k -> PiecePool] : k \in 2..MaxEntries}

\* the lines whose number does not parse
BadLines == {LFuelBad, LBadSet, LBadMin, LBadDuration, LBadHeartRate, LBadCalories}

\* three-entry files whose second entry holds one such line after a good one
FailingFiles == {<<PSquat, <<Day3, LExercise, LSquat, bad>>, PRest>> : bad \in BadLines}

LFuelHydOnly == <<"F", "u", "e", "l", "i", "n", "g", ":", " ", "W", "o", "r", "k", "o", "u", "t", " ", "H", "y", "d", "r", "a", "t", "i", "o", "n", " ", "-", " ", "2", "5", "0", "m", "L">>

LTrackerDur == <<"A", "m", "a", "z", "e", "F", "i", "t", " ", "l", "o", "g", ":", " ", "d", "u", "r", "a", "t", "i", "o", "n", " ", "-", " ", "3", "0", " ", "m", "i", "n">>

\* one-entry files with two "Fueling:" lines and two "AmazeFit log:" lines
RepeatFiles ==
    {<<<<Day1, f1, t1, f2, t2>>>> :
        f1 \in {LFuel, LFuelNoHyd, LFuelHydOnly}, f2 \in {LFuel, LFuelNoHyd, LFuelHydOnly},
        t1 \in {LTracker, LTrackerCal, LTrackerDur},
        t2 \in {LTracker, LTrackerCal, LTrackerDur}}

Files == SingleEntryFiles \cup MultiEntryFiles \cup FailingFiles \cup RepeatFiles

\* file.read(): the pieces joined by a blank line, the lines by a newline
Content(f) == Join([i \in 1..Len(f) |-> Join(f[i], <<NL>>)], <<NL, NL>>)

(***************************************************************************)
(* The parser object and one run of the script                             *)
(***************************************************************************)
VARIABLES
    file,           \* the lines of the file at txt_file_path
    pc,             \* "new", "loop", "done" or "raised"
    calls,          \* parse_and_export invocations so far
    entries,        \* the local list entries of parse_and_export
    idx,            \* position of the for loop in entries
    exercise_data,  \* self.exercise_data
    session_data,   \* self.session_data
    handed,         \* history: the call, entry and line of every line
                    \* given to parse_sets
    origin,         \* history: for each row of exercise_data, the call,
                    \* entry, line and token that appended it
    csv,            \* the tables written to the two CSV files
    error,          \* the exception that left parse_and_export
    arg,            \* argument of a function applied on its own
    ret             \* its result

vars == <<file, pc, calls, entries, idx, exercise_data, session_data, origin, handed, csv,
          error, arg, ret>>

NotWritten == [written |-> FALSE, exercise |-> <<>>, session |-> <<>>]

\* __init__
Init ==
    /\ file \in Files
    /\ pc = "new"
    /\ calls = 0
    /\ entries = <<>>
    /\ idx = 0
    /\ exercise_data = <<>>
    /\ session_data = <<>>
    /\ origin = <<>>
    /\ handed = <<>>
    /\ csv = NotWritten
    /\ error = NoError
    /\ arg = <<>>
    /\ ret = <<>>

\* parse_and_export, up to its loop: read the file and split it into entries
ReadFile ==
    /\ pc \in {"new", "done"}
    /\ calls < MaxCalls
    /\ calls' = calls + 1
    /\ entries' = SplitEntries(Content(file))
    /\ idx' = 1
    /\ pc' = "loop"
    /\ UNCHANGED <<file, exercise_data, session_data, origin, handed, csv, error,
                   arg, ret>>

\* an entry that raises is skipped and the loop goes on
ProcessedSwallowing(r) ==
    /\ exercise_data' =
          AppendRows(exercise_data, [i \in 1..Len(r.appended) |-> r.appended[i].row])
    /\ origin' =
          AppendRows(origin, [i \in 1..Len(r.appended) |->
                                 <<calls, idx, r.appended[i].line, r.appended[i].tok>>])
    /\ handed' = handed \o [i \in 1..Len(r.handed) |-> <<calls, idx, r.handed[i]>>]
    /\ session_data' = session_data \o r.sessions
    /\ error' = NoError
    /\ pc' = "loop"
    /\ idx' = idx + 1

\* what one process_entry call, with outcome r, does to the parser
Processed(r) ==
    /\ exercise_data' =
          AppendRows(exercise_data, [i \in 1..Len(r.appended) |-> r.appended[i].row])
    /\ origin' =
          AppendRows(origin, [i \in 1..Len(r.appended) |->
                                 <<calls, idx, r.appended[i].line, r.appended[i].tok>>])
    /\ handed' = handed \o [i \in 1..Len(r.handed) |-> <<calls, idx, r.handed[i]>>]
    /\ session_data' = session_data \o r.sessions
    /\ error' = r.err
    /\ pc' = IF r.err # NoError THEN "raised" ELSE "loop"
    /\ idx' = IF r.err # NoError THEN idx ELSE idx + 1

\* one iteration of the loop: process_entry on the next entry
ProcessEntry ==
    /\ pc = "loop"
    /\ idx <= Len(entries)
    /\ Processed(process_entry(entries[idx]))
    /\ UNCHANGED <<file, calls, entries, csv, arg, ret>>

\* after the loop: both tables are written
Export ==
    /\ pc = "loop"
    /\ idx > Len(entries)
    /\ csv' = [written |-> TRUE, exercise |-> exercise_data, session |-> session_data]
    /\ pc' = "done"
    /\ UNCHANGED <<file, calls, entries, idx, exercise_data, session_data, origin,
                   handed, error, arg, ret>>

Next == ReadFile \/ ProcessEntry \/ Export

Spec == Init /\ [][Next]_vars

(***************************************************************************)
(* The file as authored, against which the tables are judged               *)
(***************************************************************************)
\* equality of two Python values, the type first
PyEq(a, b) == a.kind = b.kind /\ a.val = b.val

HasText(line) == \E i \in 1..Len(line) : ~IsSpace(line[i])

\* the lines of a piece that hold text, without their outer whitespace
TextLines(piece) ==
    LET kept == SelectSeq(piece, HasText)
    IN  [i \in 1..Len(kept) |-> Strip(kept[i])]

HasLines(lines) == lines # <<>>

\* the non-blank entries of a file in file order, each as its lines
Authored(f) == SelectSeq([i \in 1..Len(f) |-> TextLines(f[i])], HasLines)

\* the entries the first parse_and_export call has gone through
Processed1 ==
    IF calls = 0 THEN {}
    ELSE IF calls = 1 THEN 1..(idx - 1)
    ELSE 1..Len(Authored(file))

\* the rows of exercise_data that line l of entry e appended in the first call
RowsOf(e, l) ==
    {k \in 1..Len(origin) : origin[k][1] = 1 /\ origin[k][2] = e /\ origin[k][3] = l}

\* line l lies in the exercise block: an "Exercise:" line precedes it with no
\* "AmazeFit log:" line in between
InBlock(lines, l) ==
    \E j \in 2..(l - 1) :
        /\ StartsWith(lines[j], ExerciseMarker)
        /\ \A m \in (j + 1)..(l - 1) : ~StartsWith(lines[m], AmazeFitMarker)

\* C1: after a parse_and_export call on a fresh parser that ended without
\* error, session_data holds one row per non-blank entry of the file, and its
\* i-th row carries the date of the i-th non-blank entry.
C1_OneSessionPerEntry ==
    (pc = "done" /\ calls = 1) =>
        LET authored == Authored(file)
        IN  /\ Len(session_data) = Len(authored)
            /\ \A i \in 1..Len(session_data) : session_data[i].date = authored[i][1]

\* a finished parse of a file of three pieces, one of them blank
C1_Witness ==
    /\ pc = "done"
    /\ calls = 1
    /\ Len(file) = 3
    /\ Len(session_data) = 2

\* C2: the tables a second parse_and_export call on the same parser writes
\* are those the first call wrote.
C2_SecondCallSameTables ==
    [][(pc = "loop" /\ pc' = "done" /\ csv.written) =>
          (csv'.exercise = csv.exercise /\ csv'.session = csv.session)]_vars

\* C3: the exercise line "Run: 5 min" inside the exercise block appends
\* exactly one row, with cardio_duration 5 and neither weight nor reps.
C3_SpacedCardioToken ==
    \A e \in Processed1 :
        \A l \in 2..Len(Authored(file)[e]) :
            (Authored(file)[e][l] = LRunSpaced /\ InBlock(Authored(file)[e], l)) =>
                /\ Cardinality(RowsOf(e, l)) = 1
                /\ \A k \in RowsOf(e, l) :
                      /\ PyEq(exercise_data[k].cardio_duration, PyInt(5))
                      /\ PyEq(exercise_data[k].weight, PyNone)
                      /\ PyEq(exercise_data[k].reps, PyNone)

(***************************************************************************)
(* What the lines of the pool say, read off the lines themselves           *)
(***************************************************************************)
\* exercise lines all of whose set tokens are valid, with their number of
\* tokens
ValidSetLines == {LSquat, LRun}

SetCount(line) == IF line = LSquat THEN 2 ELSE 1

\* the value a "Muscle targeted:" line gives
MuscleLines == {LMuscle, LMuscleArm}

MuscleValue(line) == IF line = LMuscle THEN <<"L", "e", "g">> ELSE <<"A", "r", "m">>

\* the positions of the lines of an entry that belong to a set of lines
Positions(lines, set) == {l \in 2..Len(lines) : lines[l] \in set}

Last(S) == CHOOSE l \in S : \A m \in S : m <= l

\* the muscle_targeted value of an entry with one "Muscle targeted:" line
EntryMuscle(lines) == MuscleValue(lines[Last(Positions(lines, MuscleLines))])

\* the muscle_targeted value in force at line l: that of the last
\* "Muscle targeted:" line before l, the empty string when there is none
MuscleBefore(lines, l) ==
    LET before == {j \in Positions(lines, MuscleLines) : j < l}
    IN  IF before = {} THEN <<>> ELSE MuscleValue(lines[Last(before)])

\* C5 as claimed: an exercise line in the exercise block with N valid set
\* tokens appends N rows, each with the entry's date and with the value of
\* the entry's "Muscle targeted:" line, wherever that line stands.
C5_RowsCarryEntryMuscle ==
    \A e \in Processed1 :
        \A l \in 2..Len(Authored(file)[e]) :
            (/\ Authored(file)[e][l] \in ValidSetLines
             /\ InBlock(Authored(file)[e], l)
             /\ Cardinality(Positions(Authored(file)[e], MuscleLines)) = 1) =>
                /\ Cardinality(RowsOf(e, l)) = SetCount(Authored(file)[e][l])
                /\ \A k \in RowsOf(e, l) :
                      /\ exercise_data[k].date = Authored(file)[e][1]
                      /\ exercise_data[k].muscle_targeted = EntryMuscle(Authored(file)[e])

\* C5 amended: such a line appends N rows, each with the entry's date and
\* with the muscle_targeted value in force when the line is read, which is
\* that of the last "Muscle targeted:" line before it (empty when none).
C5_RowsCarryMuscleInForce ==
    \A e \in Processed1 :
        LET lines == Authored(file)[e]
        IN  \A l \in 2..Len(lines) :
                (lines[l] \in ValidSetLines /\ InBlock(lines, l)) =>
                    /\ Cardinality(RowsOf(e, l)) = SetCount(lines[l])
                    /\ \A k \in RowsOf(e, l) :
                          /\ exercise_data[k].date = lines[1]
                          /\ exercise_data[k].muscle_targeted = MuscleBefore(lines, l)

\* a processed entry with a valid exercise line in the block, its rows
\* appended, and a "Muscle targeted:" line after it
C5_Witness ==
    /\ pc = "done"
    /\ calls = 1
    /\ \E e \in Processed1 :
          \E l \in 2..Len(Authored(file)[e]) :
              /\ Authored(file)[e][l] \in ValidSetLines
              /\ InBlock(Authored(file)[e], l)
              /\ Cardinality(RowsOf(e, l)) = 2
              /\ \E j \in Positions(Authored(file)[e], MuscleLines) : j > l

\* the order of two origins: by call, then entry, then line, then token
Before(a, b) ==
    \E i \in 1..4 : a[i] < b[i] /\ \A j \in 1..(i - 1) : a[j] = b[j]

\* C6: both tables are in file order: the rows of exercise_data follow the
\* order of their entries, within an entry that of their lines, within a
\* line that of their tokens, each row carrying the date and the exercise
\* name of the line it comes from; session_data is in entry order.
C6_RowOrder ==
    LET authored == Authored(file)
    IN  /\ Len(origin) = Len(exercise_data)
        /\ \A k \in 1..(Len(origin) - 1) : Before(origin[k], origin[k + 1])
        /\ \A k \in 1..Len(origin) :
              origin[k][1] = 1 =>
                  /\ exercise_data[k].date = authored[origin[k][2]][1]
                  /\ StartsWith(authored[origin[k][2]][origin[k][3]],
                                exercise_data[k].exercise \o <<":">>)
        /\ calls = 1 =>
              /\ Len(session_data) <= Len(authored)
              /\ \A i \in 1..Len(session_data) : session_data[i].date = authored[i][1]

\* a finished parse with rows of two entries, of two lines of one entry and
\* of two tokens of one line
C6_Witness ==
    /\ pc = "done"
    /\ calls = 1
    /\ \E j, k \in 1..Len(origin) :
          /\ origin[j][2] # origin[k][2]
    /\ \E j, k \in 1..Len(origin) :
          /\ origin[j][2] = origin[k][2]
          /\ origin[j][3] # origin[k][3]
    /\ \E k \in 1..Len(origin) : origin[k][4] = 2

\* the lines whose number fails to parse wherever they stand after the date
\* line, and those that fail as exercise lines
BadMarkerLines == {LFuelBad, LBadDuration, LBadHeartRate, LBadCalories}

BadSetLines == {LBadSet, LBadMin}

\* an entry with a numeric-parse failure in a marker line or a set token
HasParseFailure(lines) ==
    \E l \in 2..Len(lines) :
        \/ lines[l] \in BadMarkerLines
        \/ lines[l] \in BadSetLines /\ InBlock(lines, l)

\* C8: a numeric-parse failure in an entry leaves parse_and_export as an
\* exception: the loop never gets past that entry, no session row is
\* appended for it or for a later entry, neither CSV is written, and nothing
\* runs after the exception.
C8_FailureAborts ==
    /\ \A e \in DOMAIN Authored(file) :
          HasParseFailure(Authored(file)[e]) =>
              /\ idx <= e
              /\ Len(session_data) < e
              /\ pc # "done"
              /\ ~csv.written
    /\ pc = "raised" => (error # NoError /\ ~csv.written /\ ~ENABLED Next)

\* the exception of a bad number, raised in the second of three entries
C8_Witness ==
    /\ pc = "raised"
    /\ error = ValueError
    /\ idx = 2
    /\ Len(entries) = 3
    /\ Len(session_data) = 1
    /\ HasParseFailure(Authored(file)[2])

\* the values the "Fueling:" lines of the pool give
FuelingLines == {LFuel, LFuelNoHyd, LFuelHydOnly, LFuelBad}

FuelingPreworkoutValue(line) ==
    IF line = LFuel THEN <<"1", " ", "E", "g", "g">>
    ELSE IF line = LFuelHydOnly THEN <<>>
    ELSE <<"T", "e", "a">>

FuelingHydrationValue(line) ==
    IF line = LFuel THEN PyInt(500)
    ELSE IF line = LFuelHydOnly THEN PyInt(250)
    ELSE PyInt(0)

HasAmazeFit(lines) == \E l \in 2..Len(lines) : StartsWith(lines[l], AmazeFitMarker)

\* C9: a processed entry without "AmazeFit log:" line has the three tracker
\* fields 0 and its fueling fields from its "Fueling:" line; one without
\* "Fueling:" line has preworkout empty and hydration the empty string; one
\* whose "Fueling:" line has no "Workout Hydration" segment has hydration 0.
C9_MissingSections ==
    \A e \in Processed1 :
        LET lines == Authored(file)[e]
            row == session_data[e]
            fuel == Positions(lines, FuelingLines)
        IN  /\ ~HasAmazeFit(lines) =>
                  /\ row.workout_duration = 0
                  /\ row.workout_avg_heart_rate = 0
                  /\ row.workout_calories_burnt = 0
                  /\ fuel # {} =>
                        /\ row.preworkout = FuelingPreworkoutValue(lines[Last(fuel)])
                        /\ PyEq(row.hydration, FuelingHydrationValue(lines[Last(fuel)]))
            /\ fuel = {} =>
                  /\ row.preworkout = <<>>
                  /\ PyEq(row.hydration, PyStr(<<>>))
            /\ (fuel # {} /\ lines[Last(fuel)] = LFuelNoHyd) =>
                  PyEq(row.hydration, PyInt(0))

\* a finished parse with an entry without "Fueling:" line, and an entry
\* without "AmazeFit log:" line whose "Fueling:" line has no hydration
C9_Witness ==
    /\ pc = "done"
    /\ calls = 1
    /\ \E i, j \in 1..Len(session_data) :
          /\ Positions(Authored(file)[i], FuelingLines) = {}
          /\ PyEq(session_data[i].hydration, PyStr(<<>>))
          /\ ~HasAmazeFit(Authored(file)[j])
          /\ Positions(Authored(file)[j], {LFuelNoHyd}) # {}
          /\ session_data[j].preworkout = <<"T", "e", "a">>
          /\ PyEq(session_data[j].hydration, PyInt(0))

\* the four markers a line can start with
Markers == {MuscleMarker, FuelingMarker, ExerciseMarker, AmazeFitMarker}

Unmarked(line) == \A m \in Markers : ~StartsWith(line, m)

HasColon(line) == \E i \in 1..Len(line) : line[i] = ":"

\* line l of an entry is an exercise line: unmarked, with a colon, in the
\* exercise block
IsExerciseLine(lines, l) ==
    Unmarked(lines[l]) /\ HasColon(lines[l]) /\ InBlock(lines, l)

\* line l of an entry is one whose number fails to parse
Fails(lines, l) ==
    \/ lines[l] \in BadMarkerLines
    \/ lines[l] \in BadSetLines /\ InBlock(lines, l)

\* the lines after the first that the first call has read of entry e: all
\* of them when process_entry returned, those up to the first failing line
\* when it raised
LinesRead(e, lines) ==
    IF e \in Processed1 THEN 2..Len(lines)
    ELSE IF pc = "raised" /\ e = idx /\ HasParseFailure(lines)
    THEN 2..(CHOOSE l \in 2..Len(lines) :
                Fails(lines, l) /\ \A m \in 2..(l - 1) : ~Fails(lines, m))
    ELSE {}

\* the lines of entry e that the first call gave to parse_sets
LinesHanded(e) ==
    {handed[k][3] : k \in {j \in 1..Len(handed) : handed[j][1] = 1 /\ handed[j][2] = e}}

\* C11: a line after the first is given to parse_sets exactly when it starts
\* with none of the four markers, contains ":" and lies in the exercise
\* block (an "Exercise:" line precedes it with no "AmazeFit log:" line in
\* between); every other unmarked line appends no row and raises no error:
\* an exception comes from a marker line or from a line given to parse_sets.
C11_ExerciseLinesOnly ==
    LET authored == Authored(file)
    IN  /\ pc = "raised" => HasParseFailure(authored[idx])
        /\ \A e \in 1..Len(authored) :
              LET lines == authored[e]
              IN  /\ LinesHanded(e) =
                        {l \in LinesRead(e, lines) : IsExerciseLine(lines, l)}
                  /\ \A l \in 2..Len(lines) :
                        ~IsExerciseLine(lines, l) => RowsOf(e, l) = {}

\* a finished parse of an entry with a set line before "Exercise:" or after
\* "AmazeFit log:", which was passed over, and a set line in the block, which
\* was given to parse_sets
C11_Witness ==
    /\ pc = "done"
    /\ calls = 1
    /\ \E e \in Processed1 :
          \E l, j \in 2..Len(Authored(file)[e]) :
              /\ Authored(file)[e][l] \in {LSquat, LBadSet}
              /\ ~InBlock(Authored(file)[e], l)
              /\ l \notin LinesHanded(e)
              /\ RowsOf(e, l) = {}
              /\ j \in LinesHanded(e)

\* the values the "AmazeFit log:" lines of the pool give: duration, average
\* heart rate, calories
TrackerLines == {LTracker, LTrackerCal, LTrackerDur}

TrackerValue(line) ==
    IF line = LTracker THEN <<40, 105, 276>>
    ELSE IF line = LTrackerCal THEN <<0, 0, 9>>
    ELSE <<30, 0, 0>>

\* C14: the session row of an entry with several "Fueling:" lines has the
\* preworkout and hydration the last of them gives on its own, that of an
\* entry with several "AmazeFit log:" lines the three tracker fields the
\* last of them gives on its own, a missing segment giving the default and
\* not the value of an earlier line; each entry gets one session row.
C14_LastLineAlone ==
    /\ calls = 1 => Len(session_data) = idx - 1
    /\ \A e \in Processed1 :
          LET lines == Authored(file)[e]
              row == session_data[e]
              fuel == Positions(lines, FuelingLines)
              tracker == Positions(lines, TrackerLines)
          IN  /\ Cardinality(fuel) > 1 =>
                    /\ row.preworkout = FuelingPreworkoutValue(lines[Last(fuel)])
                    /\ PyEq(row.hydration, FuelingHydrationValue(lines[Last(fuel)]))
              /\ Cardinality(tracker) > 1 =>
                    /\ row.workout_duration = TrackerValue(lines[Last(tracker)])[1]
                    /\ row.workout_avg_heart_rate = TrackerValue(lines[Last(tracker)])[2]
                    /\ row.workout_calories_burnt = TrackerValue(lines[Last(tracker)])[3]

\* a finished parse of an entry whose first "Fueling:" line gives a meal and
\* 500 mL and whose last gives the hydration only, and whose first
\* "AmazeFit log:" line gives three values and whose last the calories only
C14_Witness ==
    /\ pc = "done"
    /\ calls = 1
    /\ \E e \in Processed1 :
          /\ Authored(file)[e] = <<Day1, LFuel, LTracker, LFuelHydOnly, LTrackerCal>>
          /\ session_data[e].preworkout = <<>>
          /\ PyEq(session_data[e].hydration, PyInt(250))
          /\ session_data[e].workout_duration = 0
          /\ session_data[e].workout_avg_heart_rate = 0
          /\ session_data[e].workout_calories_burnt = 9
          /\ Len(session_data) = 1

\* the dates of the rows of session_data
SessionDates == {session_data[i].date : i \in 1..Len(session_data)}

\* C13: between process_entry calls, whether the last call returned or
\* raised, every row of exercise_data has the date of some row of
\* session_data.
C13_RowsHaveSession ==
    \A k \in 1..Len(exercise_data) : exercise_data[k].date \in SessionDates

\* the same of the states no process_entry call has raised in
C13_RowsHaveSessionUnlessRaised ==
    pc # "raised" =>
        \A k \in 1..Len(exercise_data) : exercise_data[k].date \in SessionDates

(***************************************************************************)
(* One-entry files whose exercise line is built from a list of set tokens  *)
(***************************************************************************)
MaxTokens == 3

TStrength == <<" ", "1", "0", "X", "1", "2">>

TDecimal == <<" ", "6", "0", ".", "5", "X", "8">>

TRepsDot == <<" ", "8", "X", "1", ".", "5", " ", "r", "e", "p", "s">>

TCardio == <<" ", "5", "m", "i", "n">>

TSpaced == <<" ", "5", " ", "m", "i", "n">>

TEmpty == <<>>

TBlank == <<" ">>

TWord == <<" ", "w", "a", "r", "m", "u", "p">>

TBoth == <<" ", "5", "m", "i", "n", "X", "3">>

TBadWeight == <<" ", "a", "X", "3">>

TTwoX == <<" ", "1", "X", "2", "X", "3">>

\* tokens of a recognised shape whose numbers parse
ValidTokens == {TStrength, TDecimal, TRepsDot, TCardio}

\* tokens whose head holds neither "min" nor "X", or that have no head
UnrecognisedTokens == {TSpaced, TEmpty, TBlank, TWord}

\* tokens of a recognised shape whose numbers do not parse
BadTokens == {TBoth, TBadWeight, TTwoX}

TokenPool == ValidTokens \cup UnrecognisedTokens \cup BadTokens

TokenLists == UNION {[1..k -> TokenPool] : k \in 1..MaxTokens}

\* the file "Day1 / Exercise: / Ex:<tokens joined by commas>"
TokenFile(tokens) == <<<<Day1, LExercise, <<"E", "x", ":">> \o Join(tokens, <<",">>)>>>>

InitTokens ==
    /\ arg \in TokenLists
    /\ file = TokenFile(arg)
    /\ pc = "new"
    /\ calls = 0
    /\ entries = <<>>
    /\ idx = 0
    /\ exercise_data = <<>>
    /\ session_data = <<>>
    /\ origin = <<>>
    /\ handed = <<>>
    /\ csv = NotWritten
    /\ error = NoError
    /\ ret = <<>>

SpecTokens == InitTokens /\ [][Next]_vars

\* the positions of the tokens of arg that belong to a set of tokens
TokenPositions(set) == {t \in 1..Len(arg) : arg[t] \in set}

\* C4: on an exercise line whose tokens are valid or unrecognised, the
\* unrecognised ones (an empty or blank one among them) are dropped without
\* error and every valid one still gives its row.
C4_UnrecognisedTokensDropped ==
    TokenPositions(BadTokens) = {} =>
        /\ pc # "raised"
        /\ pc = "done" =>
              {origin[k][4] : k \in RowsOf(1, 3)} = TokenPositions(ValidTokens)

IsStrengthRow(row) ==
    /\ row.weight.kind = "float"
    /\ row.reps.kind = "int"
    /\ row.cardio_duration.kind = "None"

IsCardioRow(row) ==
    /\ row.cardio_duration.kind = "int"
    /\ row.weight.kind = "None"
    /\ row.reps.kind = "None"

\* C7: every row of exercise_data is a strength row (weight and reps, no
\* cardio_duration) or a cardio row (cardio_duration, neither weight nor
\* reps), never both and never neither; a token whose head holds both "min"
\* and "X" gives no row.
C7_OneVariantPerRow ==
    /\ \A k \in 1..Len(exercise_data) :
          IsStrengthRow(exercise_data[k]) # IsCardioRow(exercise_data[k])
    /\ \A k \in 1..Len(origin) : arg[origin[k][4]] # TBoth

\* a finished parse of a line with a strength token, a cardio token and an
\* unrecognised one, the first two with their rows
C7_Witness ==
    /\ pc = "done"
    /\ calls = 1
    /\ TokenPositions(UnrecognisedTokens) # {}
    /\ \E j, k \in 1..Len(exercise_data) :
          /\ IsStrengthRow(exercise_data[j])
          /\ IsCardioRow(exercise_data[k])

(***************************************************************************)
(* split_pre_workout (src/src/split_preworkout.py)                         *)
(***************************************************************************)
UpperCase == <<"A", "B", "C", "D", "E", "F", "G", "H", "I", "J", "K", "L", "M", "N", "O", "P", "Q", "R", "S", "T", "U", "V", "W", "X", "Y", "Z">>

LowerCase == <<"a", "b", "c", "d", "e", "f", "g", "h", "i", "j", "k", "l", "m", "n", "o", "p", "q", "r", "s", "t", "u", "v", "w", "x", "y", "z">>

\* c.lower()
LowerChar(c) ==
    IF \E i \in 1..26 : UpperCase[i] = c
    THEN LowerCase[CHOOSE i \in 1..26 : UpperCase[i] = c]
    ELSE c

\* s.lower()
Lower(s) == [i \in 1..Len(s) |-> LowerChar(s[i])]

\* the counts split_pre_workout starts from
NoFood == [err |-> NoError, banana_qty |-> 0, apple_qty |-> 0, coffee_qty |-> 0,
           sandwich_qty |-> 0]

\* the aggregation loop body on one (qty, name) pair
FoodCount(acc, qty, name) ==
    IF name = <<"b", "a", "n", "a", "n", "a">> THEN [acc EXCEPT !.banana_qty = @ + qty]
    ELSE IF name = <<"a", "p", "p", "l", "e">> THEN [acc EXCEPT !.apple_qty = @ + qty]
    ELSE IF name = <<"c", "o", "f", "f", "e", "e">> THEN [acc EXCEPT !.coffee_qty = @ + qty]
    ELSE IF name = <<"s", "a", "n", "d", "w", "i", "c", "h">> THEN [acc EXCEPT !.sandwich_qty = @ + qty]
    ELSE acc

\* qty, name = parts; qty = int(qty), given the outcome of int
FoodQuantified(acc, qty, name) ==
    IF qty.err # NoError THEN [acc EXCEPT !.err = qty.err]
    ELSE FoodCount(acc, qty.val, Strip(Lower(name)))

\* the parsing loop body on the parts of one item
FoodParts(acc, parts) ==
    IF Len(parts) = 2 THEN FoodQuantified(acc, ToInt(parts[1]), parts[2])
    ELSE FoodCount(acc, 1, Strip(Lower(parts[1])))

\* parts = item.split(' ', 1)
FoodItem(acc, item) == FoodParts(acc, Split1(item, <<" ">>))

RECURSIVE FoodLoop(_, _, _)
FoodLoop(acc, food_items, i) ==
    IF i > Len(food_items) \/ acc.err # NoError THEN acc
    ELSE FoodLoop(FoodItem(acc, Strip(food_items[i])), food_items, i + 1)

\* split_pre_workout: the four counts of the Series, or the error raised
split_pre_workout(info) ==
    IF info.kind # "str" THEN NoFood
    ELSE FoodLoop(NoFood, Split(info.val, <<"&">>), 1)

(***************************************************************************)
(* split_pre_workout applied to strings of food tokens, and to None        *)
(***************************************************************************)
MaxFoods == 3

FBananas == <<"2", " ", "b", "a", "n", "a", "n", "a">>

FBanana == <<"B", "a", "n", "a", "n", "a">>

FApple == <<"1", " ", "a", "p", "p", "l", "e">>

FCoffee == <<"c", "o", "f", "f", "e", "e">>

FCoffees == <<"1", "0", " ", "C", "O", "F", "F", "E", "E">>

FSandwich == <<"3", " ", "S", "a", "n", "d", "w", "i", "c", "h">>

FEggs == <<"2", " ", "b", "o", "i", "l", "e", "d", " ", "e", "g", "g", "s">>

FToast == <<"t", "o", "a", "s", "t">>

FPeanutButter == <<"p", "e", "a", "n", "u", "t", " ", "b", "u", "t", "t", "e", "r">>

FoodPool ==
    {FBananas, FBanana, FApple, FCoffee, FCoffees, FSandwich, FEggs, FToast, FPeanutButter}

\* what each token of the pool says: its quantity and the food it names
FoodQty(token) ==
    IF token = FBananas THEN 2
    ELSE IF token = FCoffees THEN 10
    ELSE IF token = FSandwich THEN 3
    ELSE IF token = FEggs THEN 2
    ELSE 1

FoodName(token) ==
    IF token \in {FBananas, FBanana} THEN "banana"
    ELSE IF token = FApple THEN "apple"
    ELSE IF token \in {FCoffee, FCoffees} THEN "coffee"
    ELSE IF token = FSandwich THEN "sandwich"
    ELSE "other"

FoodSeparators == {<<" ", "&", " ">>, <<"&">>}

\* the arguments: None, and the token lists joined by a separator
FoodArgs ==
    {[tokens |-> <<>>, info |-> PyNone]}
    \cup {[tokens |-> tokens, info |-> PyStr(Join(tokens, sep))] :
            tokens \in UNION {[1..k -> FoodPool] : k \in 1..MaxFoods},
            sep \in FoodSeparators}

InitFood ==
    /\ arg \in FoodArgs
    /\ ret = NoFood
    /\ pc = "call"
    /\ file = <<>>
    /\ calls = 0
    /\ entries = <<>>
    /\ idx = 0
    /\ exercise_data = <<>>
    /\ session_data = <<>>
    /\ origin = <<>>
    /\ handed = <<>>
    /\ csv = NotWritten
    /\ error = NoError

\* one call of split_pre_workout
SplitPreWorkout ==
    /\ pc = "call"
    /\ ret' = split_pre_workout(arg.info)
    /\ pc' = "returned"
    /\ UNCHANGED <<file, calls, entries, idx, exercise_data, session_data, origin,
                   handed, csv, error, arg>>

NextFood == SplitPreWorkout

SpecFood == InitFood /\ [][NextFood]_vars

\* the sum of the quantities of the tokens naming a food
RECURSIVE FoodSum(_, _)
FoodSum(tokens, food) ==
    IF tokens = <<>> THEN 0
    ELSE (IF FoodName(Head(tokens)) = food THEN FoodQty(Head(tokens)) ELSE 0)
         + FoodSum(Tail(tokens), food)

\* C10: split_pre_workout returns, for each of the four tracked foods, the
\* sum of the quantities of the tokens naming it, ignores the tokens naming
\* another food without error, and returns four zeros for a non-string.
C10_FoodCounts ==
    pc = "returned" =>
        /\ ret.err = NoError
        /\ ret.banana_qty = FoodSum(arg.tokens, "banana")
        /\ ret.apple_qty = FoodSum(arg.tokens, "apple")
        /\ ret.coffee_qty = FoodSum(arg.tokens, "coffee")
        /\ ret.sandwich_qty = FoodSum(arg.tokens, "sandwich")

\* C10 holds of the strings without a bare name of several words
C10_FoodCountsSingleWordNames ==
    (pc = "returned" /\ \A i \in 1..Len(arg.tokens) : arg.tokens[i] # FPeanutButter) =>
        /\ ret.err = NoError
        /\ ret.banana_qty = FoodSum(arg.tokens, "banana")
        /\ ret.apple_qty = FoodSum(arg.tokens, "apple")
        /\ ret.coffee_qty = FoodSum(arg.tokens, "coffee")
        /\ ret.sandwich_qty = FoodSum(arg.tokens, "sandwich")

(***************************************************************************)
(* detect_stall_points (src/src/workout_log_analysis.py)                   *)
(*                                                                         *)
(* exercise_df is a sequence of rows with the columns the function reads;  *)
(* date is a day number, weight a whole number of kilograms, a mean the    *)
(* pair of the sum and the count it is the quotient of.                    *)
(***************************************************************************)
\* the characters of the names below, in code-point order
CodeOrder ==
    <<" ", "B", "L", "R", "a", "c", "d", "e", "g", "k", "l", "n", "o", "p", "t",
      "u", "w">>

Code(c) == CHOOSE i \in 1..Len(CodeOrder) : CodeOrder[i] = c

\* a < b for two strings
StrLess(a, b) ==
    \E i \in 1..(Len(a) + 1) :
        /\ i <= Len(b)
        /\ \A j \in 1..(i - 1) : a[j] = b[j]
        /\ (i = Len(a) + 1 \/ Code(a[i]) < Code(b[i]))

\* the group key of a row
KeyOf(row) ==
    [muscle_targeted |-> row.muscle_targeted, exercise |-> row.exercise,
     date |-> row.date]

\* the order sort_values(['muscle_targeted', 'exercise', 'date']) puts keys in
KeyLess(x, y) ==
    \/ StrLess(x.muscle_targeted, y.muscle_targeted)
    \/ /\ x.muscle_targeted = y.muscle_targeted
       /\ \/ StrLess(x.exercise, y.exercise)
          \/ x.exercise = y.exercise /\ x.date < y.date

MinKey(S) == CHOOSE x \in S : \A y \in S \ {x} : KeyLess(x, y)

RECURSIVE SortKeys(_)
SortFrom(S, m) == <<m>> \o SortKeys(S \ {m})

SortKeys(S) == IF S = {} THEN <<>> ELSE SortFrom(S, MinKey(S))

\* the sum of the weights of rows i.. of df that have the key
RECURSIVE WeightSum(_, _, _)
WeightSum(df, key, i) ==
    IF i > Len(df) THEN 0
    ELSE (IF KeyOf(df[i]) = key THEN df[i].weight ELSE 0) + WeightSum(df, key, i + 1)

WeightCount(df, key) == Cardinality({i \in 1..Len(df) : KeyOf(df[i]) = key})

\* aggregate_data(exercise_df, ['muscle_targeted', 'exercise', 'date'],
\* 'weight', 'mean'), then sort_values: one row per key, in key order
GroupMean(df, key) ==
    [muscle_targeted |-> key.muscle_targeted, exercise |-> key.exercise,
     date |-> key.date,
     weight |-> [sum |-> WeightSum(df, key, 1), n |-> WeightCount(df, key)]]

GroupMeans(df, keys) == [i \in 1..Len(keys) |-> GroupMean(df, keys[i])]

aggregate_data(df) == GroupMeans(df, SortKeys({KeyOf(df[i]) : i \in 1..Len(df)}))

NaN == [kind |-> "NaN", num |-> 0, den |-> 1]

\* groupby(['muscle_targeted', 'exercise'])['weight'].transform('diff') at row
\* i: the mean of row i less that of row i - 1 of the same group, as a
\* fraction; NaN on the first row of a group
WeightDiff(means, i) ==
    IF i = 1 \/ means[i - 1].muscle_targeted # means[i].muscle_targeted
             \/ means[i - 1].exercise # means[i].exercise
    THEN NaN
    ELSE [kind |-> "number",
          num |-> means[i].weight.sum * means[i - 1].weight.n
                  - means[i - 1].weight.sum * means[i].weight.n,
          den |-> means[i].weight.n * means[i - 1].weight.n]

\* stall_df['is_stall'] = stall_df['weight_diff'] == 0
IsStall(weight_diff) == weight_diff.kind = "number" /\ weight_diff.num = 0

StallRow(mean, weight_diff) ==
    [muscle_targeted |-> mean.muscle_targeted, exercise |-> mean.exercise,
     date |-> mean.date, weight |-> mean.weight, weight_diff |-> weight_diff,
     is_stall |-> IsStall(weight_diff)]

StallFrame(means) == [i \in 1..Len(means) |-> StallRow(means[i], WeightDiff(means, i))]

IsTarget(row) ==
    row.exercise = arg.exercise_name /\ row.muscle_targeted = arg.muscle_group

IsTargetStall(row) == IsTarget(row) /\ row.is_stall

\* stall_df as it stands after line 306, and the frame returned
StallResult(stall_df) ==
    [stall_df |-> stall_df, stall_points |-> SelectSeq(stall_df, IsTargetStall)]

detect_stall_points(exercise_df) == StallResult(StallFrame(aggregate_data(exercise_df)))

MaxRows == 3

Back == <<"B", "a", "c", "k">>

Leg == <<"L", "e", "g">>

LatPulldown == <<"L", "a", "t", " ", "p", "u", "l", "l", "d", "o", "w", "n">>

Row == <<"R", "o", "w">>

\* rows of three exercises on three days, with one of two weights
StallRows ==
    {[muscle_targeted |-> g[1], exercise |-> g[2], date |-> d, weight |-> w] :
        g \in {<<Back, LatPulldown>>, <<Back, Row>>, <<Leg, LatPulldown>>},
        d \in 1..3, w \in {40, 50}}

StallArgs ==
    {[exercise_df |-> df, exercise_name |-> LatPulldown, muscle_group |-> Back] :
        df \in UNION {[1..k -> StallRows] : k \in 0..MaxRows}}

InitStall ==
    /\ arg \in StallArgs
    /\ ret = <<>>
    /\ pc = "call"
    /\ file = <<>>
    /\ calls = 0
    /\ entries = <<>>
    /\ idx = 0
    /\ exercise_data = <<>>
    /\ session_data = <<>>
    /\ origin = <<>>
    /\ handed = <<>>
    /\ csv = NotWritten
    /\ error = NoError

\* one call of detect_stall_points
DetectStallPoints ==
    /\ pc = "call"
    /\ ret' = detect_stall_points(arg.exercise_df)
    /\ pc' = "returned"
    /\ UNCHANGED <<file, calls, entries, idx, exercise_data, session_data, origin,
                   handed, csv, error, arg>>

NextStall == DetectStallPoints

SpecStall == InitStall /\ [][NextStall]_vars

\* the rows of exercise_df of a muscle and exercise on a date
SessionRows(m, e, d) ==
    {i \in 1..Len(arg.exercise_df) :
        /\ arg.exercise_df[i].muscle_targeted = m
        /\ arg.exercise_df[i].exercise = e
        /\ arg.exercise_df[i].date = d}

RECURSIVE Total(_)
Total(I) ==
    IF I = {} THEN 0
    ELSE LET i == CHOOSE x \in I : TRUE
         IN  arg.exercise_df[i].weight + Total(I \ {i})

\* the dates before d on which the muscle and exercise were trained
Earlier(m, e, d) == {p \in 1..(d - 1) : SessionRows(m, e, p) # {}}

\* the mean weight on date d is at most that on date p
NotIncreased(m, e, d, p) ==
    Total(SessionRows(m, e, d)) * Cardinality(SessionRows(m, e, p))
        <= Total(SessionRows(m, e, p)) * Cardinality(SessionRows(m, e, d))

\* C12: detect_stall_points marks a (muscle, exercise, date) row exactly when
\* the exercise has an earlier session and the mean weight of the date is
\* less than or equal to that of the immediately preceding session; the
\* first session of an exercise is never marked.
C12_StallWhenNotIncreased ==
    pc = "returned" =>
        \A i \in 1..Len(ret.stall_df) :
            LET r == ret.stall_df[i]
                before == Earlier(r.muscle_targeted, r.exercise, r.date)
            IN  r.is_stall <=>
                    /\ before # {}
                    /\ NotIncreased(r.muscle_targeted, r.exercise, r.date, Last(before))

\* what does hold: a row is marked exactly when the mean weight equals that
\* of the immediately preceding session
C12_StallWhenEqual ==
    pc = "returned" =>
        \A i \in 1..Len(ret.stall_df) :
            LET r == ret.stall_df[i]
                before == Earlier(r.muscle_targeted, r.exercise, r.date)
            IN  r.is_stall <=>
                    /\ before # {}
                    /\ NotIncreased(r.muscle_targeted, r.exercise, r.date, Last(before))
                    /\ NotIncreased(r.muscle_targeted, r.exercise, Last(before), r.date)

(***************************************************************************)
(* track_progress_by_phase (src/src/workout_log_analysis.py): the phase    *)
(* column. A date is a day number.                                         *)
(***************************************************************************)
\* start_date = analysis_df['date'].min()
MinDate(dates) == CHOOSE d \in {dates[i] : i \in 1..Len(dates)} :
                      \A i \in 1..Len(dates) : d <= dates[i]

\* the chain of comparisons of get_phase_label
PhaseOfDelta(delta_days) ==
    IF delta_days < 90 THEN "0-3 months"
    ELSE IF delta_days < 100 THEN "3-6 months"
    ELSE IF delta_days < 270 THEN "6-9 months"
    ELSE IF delta_days < 360 THEN "9-12 months"
    ELSE "12+ months"

\* delta_days = (date - start_date).days, then the chain
get_phase_label(date, start_date) == PhaseOfDelta(date - start_date)

\* analysis_df['phase'] = analysis_df['date'].apply(get_phase_label)
PhaseColumn(dates, start_date) ==
    [i \in 1..Len(dates) |-> get_phase_label(dates[i], start_date)]

track_progress_by_phase(dates) == PhaseColumn(dates, MinDate(dates))

MaxDay == 400

\* frames of two rows: one dated in the first week, one on any day
PhaseArgs == {<<first, other>> : first \in {0, 7}, other \in 0..MaxDay}

InitPhase ==
    /\ arg \in PhaseArgs
    /\ ret = <<>>
    /\ pc = "call"
    /\ file = <<>>
    /\ calls = 0
    /\ entries = <<>>
    /\ idx = 0
    /\ exercise_data = <<>>
    /\ session_data = <<>>
    /\ origin = <<>>
    /\ handed = <<>>
    /\ csv = NotWritten
    /\ error = NoError

\* one call of track_progress_by_phase
TrackProgressByPhase ==
    /\ pc = "call"
    /\ ret' = track_progress_by_phase(arg)
    /\ pc' = "returned"
    /\ UNCHANGED <<file, calls, entries, idx, exercise_data, session_data, origin,
                   handed, csv, error, arg>>

NextPhase == TrackProgressByPhase

SpecPhase == InitPhase /\ [][NextPhase]_vars

\* the five phases in order, each of 90 days but the last
PhaseNames == <<"0-3 months", "3-6 months", "6-9 months", "9-12 months", "12+ months">>

\* the offset of row i from the earliest date of the frame
Offset(i) == arg[i] - MinDate(arg)

\* C15: every row gets the phase its day offset from the start date falls
\* in, the phases being consecutive spans of 90 days: 0-89 is "0-3 months",
\* 90-179 "3-6 months", 180-269 "6-9 months", 270-359 "9-12 months", 360 and
\* above "12+ months".
C15_NinetyDayPhases ==
    pc = "returned" =>
        \A i \in 1..Len(arg) :
            ret[i] = PhaseNames[IF Offset(i) >= 360 THEN 5 ELSE (Offset(i) \div 90) + 1]

\* what does hold: the second phase ends at day 99 and the third begins at
\* day 100
C15_SecondPhaseEndsAtDay99 ==
    pc = "returned" =>
        \A i \in 1..Len(arg) :
            /\ ret[i] = "0-3 months" <=> Offset(i) \in 0..89
            /\ ret[i] = "3-6 months" <=> Offset(i) \in 90..99
            /\ ret[i] = "6-9 months" <=> Offset(i) \in 100..269
            /\ ret[i] = "9-12 months" <=> Offset(i) \in 270..359
            /\ ret[i] = "12+ months" <=> Offset(i) >= 360

====
